---- MODULE Spec2Model ----
(***************************************************************************)
(* Model of the generation-and-upload pipeline of the MetalPromo design    *)
(* generator: the upload task (zoho_adapter.upload_file_to_workdrive), the *)
(* batch upload coordinator (zoho_adapter.batch_upload_designs_to_         *)
(* workdrive) and the fan-out of generation tasks (openai_adapter), with    *)
(* the image optimizer (zoho_adapter.optimize_image_for_upload) and the    *)
(* session state of the page that calls them (streamlit_app.main).         *)
(***************************************************************************)
EXTENDS Integers, Sequences, FiniteSets, TLC

(***************************************************************************)
(* Bounds of the model                                                     *)
(***************************************************************************)
MaxRetriesBound == 4   \* largest max_retries a caller passes to the upload task
MaxItems == 2          \* largest number of designs handed to one batch
MaxCatalog == 3        \* largest number of entries of PROMPT_MODIFIERS
MaxImages == 3         \* largest number of reference images of a request
MaxLimit == 2          \* largest max_concurrent_requests passed explicitly
EscapeCatalog == 2     \* largest catalog of the runs with an ill-typed image entry
MaxBytes == 5          \* largest length of the bytes handed to the optimizer
MaxClicks == 2         \* largest number of clicks on the upload button in a session
UiCatalog == 2         \* largest catalog of the generations started from the page

(***************************************************************************)
(* Program constants                                                       *)
(***************************************************************************)
InitialRetryDelay == 1     \* retry_delay = 1
MaxRetryDelay == 60        \* min(60, ...)
BatchMaxRetries == 3       \* max_retries=3 in the batch coordinator
DefaultMaxRetries == 3     \* max_retries: int = 3
PoolWorkerCap == 5         \* max_workers = min(5, len(PROMPT_MODIFIERS))
DefaultConcurrent == 5     \* max_concurrent_requests=5
KB == 1024                 \* len(image_data) / 1024

Min(a, b) == IF a <= b THEN a ELSE b
Max(a, b) == IF a >= b THEN a ELSE b

\* Python's None; every other value of the model is a record with other fields
None == [none |-> TRUE]

\* An access token obtained from get_access_token
Token == [token |-> "Zoho-oauthtoken"]

(***************************************************************************)
(* State                                                                   *)
(***************************************************************************)
VARIABLES
    \* ---- upload task (upload_file_to_workdrive) ----
    u_pc,            \* "idle" | "begin" | "loop" | "returned" | "raised"
    access_token,    \* the access_token argument / local: None or "tok"
    max_retries,     \* the max_retries argument
    retry_count,     \* local retry_count
    retry_delay,     \* local retry_delay
    delays,          \* sequence of the delays slept so far (time.sleep arguments)
    status_log,      \* status codes of the requests.post calls made so far (0: no response)
    last_response,   \* response of the most recent requests.post (None before)
    u_result,        \* return value: None or an upload-metadata record
    token_requests,  \* number of get_access_token calls with the upload scope
    \* ---- batch coordinator (batch_upload_designs_to_workdrive) ----
    b_pc,            \* "idle" | "start" | "item" | "uploading" | "finish" | "returned" | "raised"
    designs,         \* the designs argument: sequence of [style, source]
    b_idx,           \* 1-based position of the loop over designs
    folder_id,       \* result of get_miscellaneous_folder: None or a folder record
    b_token,         \* the access token fetched for the batch
    successful_uploads,  \* the list successful_uploads
    failed_items,    \* positions of the items that ended in a `continue`
    optimized,       \* positions of the items passed to optimize_image_for_upload
    note_calls,      \* number of create_note_with_file_links calls
    b_report,        \* return value: None or [success, uploads, message]
    progress_callback,   \* whether the caller gave a progress callback
    progress_log,    \* the fractions passed to progress_callback so far
    \* ---- generation (openai_adapter, and its caller in streamlit_app.main) ----
    f_pc,            \* "idle" | "running" | "returned" | "raised" | "not_called"
    call_kind,       \* "ui" | "public" | "direct": who calls which entry point
    parallel,        \* the parallel argument of generate_image_with_multiple_inputs
    client,          \* whether the module-level OpenAI client was created
    prompt_text,     \* the prompt: a sequence of characters
    input_images_data,   \* the reference images: a sequence of entry kinds
    PROMPT_MODIFIERS,    \* the catalog: a sequence of titles
    max_concurrent_requests,  \* argument of _generate_multiple_variations
    mode,            \* "none" | "multi" | "single" | "fallback"
    tasks,           \* one record per call of _generate_single_image
    results,         \* the list results of _generate_multiple_variations
    f_return,        \* value returned to the caller
    api_calls,       \* the provider calls made: [task, endpoint, listed, images]
    image_response_list, \* what streamlit_app.main holds after the call
    \* ---- image optimizer (optimize_image_for_upload) ----
    o_pc,            \* "idle" | "called" | "returned" | "raised"
    image_data,      \* the image_data argument: [mode, len]
    o_failed,        \* the step that raised inside the try block, or "none"
    o_result,        \* return value: None or [data, original_size, new_size]
    \* ---- session state of the page (streamlit_app.main) ----
    s_pc,            \* "ready" | "generate" | "rerun" | "batch"
    session_designs, \* st.session_state[designs_key]: None or [successful_designs]
    upload_trigger,  \* st.session_state[f"upload_trigger_{order_id}"]
    upload_success,  \* st.session_state[f"upload_success_{order_id}"]
    clicks,          \* clicks on "Upload All Designs to Zoho WorkDrive" so far
    batches_started, \* calls of batch_upload_designs_to_workdrive so far
    handed           \* the latest of these calls: None or [designs]

uvars == <<u_pc, access_token, max_retries, retry_count, retry_delay, delays,
           status_log, last_response, u_result, token_requests>>

bvars == <<b_pc, designs, b_idx, folder_id, b_token, successful_uploads,
           failed_items, optimized, note_calls, b_report, progress_callback,
           progress_log>>

fvars == <<f_pc, call_kind, parallel, client, prompt_text, input_images_data,
           PROMPT_MODIFIERS, max_concurrent_requests, mode, tasks, results,
           f_return, api_calls, image_response_list>>

ovars == <<o_pc, image_data, o_failed, o_result>>

svars == <<s_pc, session_designs, upload_trigger, upload_success, clicks,
           batches_started, handed>>

(***************************************************************************)
(* Storage-service responses                                               *)
(***************************************************************************)
MORE_THAN_MAX_OCCURANCE == "MORE_THAN_MAX_OCCURANCE"

\* Shapes of a response body.  json: whether response.json() parses and to
\* what; errors: the 'errors' member; data: the 'data' member.
Body(j, e, d) == [json |-> j, errors |-> e, data |-> d]

Bodies ==
    { Body("unparseable", "absent", "absent"),      \* not JSON at all
      Body("array", "absent", "absent"),            \* a JSON array
      Body("object", "absent", "absent"),           \* {}
      Body("object", "emptylist", "absent"),        \* {"errors": []}
      Body("object", "nondict", "absent"),          \* {"errors": ["x"]}
      Body("object", MORE_THAN_MAX_OCCURANCE, "absent"),
      Body("object", "OTHER_TITLE", "absent"),      \* {"errors":[{"title": "..."}]}
      Body("object", "notitle", "absent"),          \* {"errors":[{}]}
      Body("object", "absent", "notlist"),          \* {"data": {}}
      Body("object", "absent", "emptylist"),        \* {"data": []}
      Body("object", "absent", "noattributes"),     \* {"data": [{}]}
      Body("object", "absent", "noresource"),       \* {"data": [{"attributes": {}}]}
      Body("object", "absent", "rid") }             \* {"data": [{"attributes": {"resource_id": ..}}]}

Statuses == {200, 404, 429, 500}

TransportException == [status |-> 0, body |-> Body("unparseable", "absent", "absent")]

HttpResponses == [status : Statuses, body : Bodies]

Responses == HttpResponses \cup {TransportException}

\* Twice the jitter factor: random.uniform(0.5, 1.5) sampled at 0.5, 1.0, 1.5
JitterTwice == {1, 2, 3}

\* response.json() guarded by try/except: an unparseable body becomes {}
ParseBody(body) ==
    IF body.json = "unparseable" THEN Body("object", "absent", "absent") ELSE body

\* response_body.get('errors', [{}])[0].get('title'); "RAISE" when the
\* expression raises (AttributeError, IndexError), None when the title is absent
ErrorTitle(response_body) ==
    IF response_body.json # "object" THEN "RAISE"
    ELSE IF response_body.errors = "absent" THEN "None"
    ELSE IF response_body.errors \in {"emptylist", "nondict"} THEN "RAISE"
    ELSE IF response_body.errors = "notitle" THEN "None"
    ELSE response_body.errors

\* The retry condition with every HTTP 500 taken as retryable
RetryCheckAnyServerError(response) ==
    IF response.status = 429 \/ response.status = 500 THEN "retry" ELSE "no"

\* The retry condition of the loop: "retry", "no" or "raise"
RetryCheck(response) ==
    IF response.status = 429 THEN "retry"
    ELSE IF response.status = 500
         THEN LET t == ErrorTitle(ParseBody(response.body))
              IN IF t = "RAISE" THEN "raise"
                 ELSE IF t = MORE_THAN_MAX_OCCURANCE THEN "retry" ELSE "no"
         ELSE "no"

\* response.raise_for_status() raises HTTPError
RaisesForStatus(response) == response.status >= 400 /\ response.status < 600

\* bool(response) of a requests.Response is response.ok
ResponseTruthy(response) == ~RaisesForStatus(response)

\* f"https://workdrive.zoho.com/file/{file_id}": no request is made
get_workdrive_file_link(file_id) ==
    [base |-> "https://workdrive.zoho.com/file/", file |-> file_id]

\* The post-loop processing taking any response for a stored file
ParseUploadAnyBody(response) ==
    [id |-> "resource_id", url |-> get_workdrive_file_link("resource_id")]

\* Processing of the response after the retry loop
ParseUpload(response) ==
    IF response.body.json = "object" /\ response.body.data = "rid"
    THEN [id |-> "resource_id", url |-> get_workdrive_file_link("resource_id")]
    ELSE None

\* The backoff without its cap
NextDelayUncapped(delay, jitterTwice) == delay * jitterTwice

\* Backoff of the retry branch: min(60, retry_delay * 2 * jitter)
NextDelay(delay, jitterTwice) == Min(MaxRetryDelay, delay * jitterTwice)

\* Backoff of the HTTPError handler: min(60, retry_delay * 2)
NextDelayOnHTTPError(delay) == Min(MaxRetryDelay, delay * 2)

\* Number of upload requests the task has made
requests_sent == Len(status_log)

(***************************************************************************)
(* Upload task                                                             *)
(***************************************************************************)
UploadIdle ==
    /\ u_pc = "idle"
    /\ access_token = None
    /\ max_retries = 0
    /\ retry_count = 0
    /\ retry_delay = InitialRetryDelay
    /\ delays = <<>>
    /\ status_log = <<>>
    /\ last_response = None
    /\ u_result = None
    /\ token_requests = 0

\* Entry of upload_file_to_workdrive(folder_id, file_data, file_name, token, retries)
UploadCall(token, retries) ==
    /\ u_pc' = "begin"
    /\ access_token' = token
    /\ max_retries' = retries
    /\ retry_count' = 0
    /\ retry_delay' = InitialRetryDelay
    /\ delays' = <<>>
    /\ status_log' = <<>>
    /\ last_response' = None
    /\ u_result' = None

\* A caller other than the batch coordinator calls the upload task
UploadInvoke ==
    /\ u_pc = "idle"
    /\ b_pc = "idle"
    /\ \E tok \in {None, Token}, retries \in 0..MaxRetriesBound : UploadCall(tok, retries)
    /\ UNCHANGED token_requests

\* Function entry up to the retry loop: the token is fetched when none is given
UploadBegin ==
    /\ u_pc = "begin"
    /\ IF access_token = None
       THEN /\ token_requests' = token_requests + 1
            /\ \E tok \in {None, Token} :
                 /\ access_token' = tok
                 /\ u_pc' = IF tok = None THEN "returned" ELSE "loop"
       ELSE /\ u_pc' = "loop"
            /\ UNCHANGED <<access_token, token_requests>>
    /\ UNCHANGED <<max_retries, retry_count, retry_delay, delays, status_log,
                   last_response, u_result>>

\* One iteration of `while retry_count <= max_retries`, and, when the
\* iteration breaks out of the loop, the processing of the response
UploadAttempt(r) ==
    /\ u_pc = "loop"
    /\ retry_count <= max_retries
    /\ status_log' = Append(status_log, r.status)
    /\ last_response' = r
    /\ IF r = TransportException
       THEN \* except requests.exceptions.RequestException: return None
            /\ u_pc' = "returned"
            /\ u_result' = None
            /\ UNCHANGED <<retry_count, retry_delay, delays>>
       ELSE IF RetryCheck(r) = "raise"
       THEN \* AttributeError / IndexError leaves the function
            /\ u_pc' = "raised"
            /\ UNCHANGED <<u_result, retry_count, retry_delay, delays>>
       ELSE IF RetryCheck(r) = "retry" /\ retry_count < max_retries
       THEN \E j \in JitterTwice :
              /\ retry_count' = retry_count + 1
              /\ retry_delay' = NextDelay(retry_delay, j)
              /\ delays' = Append(delays, NextDelay(retry_delay, j))
              /\ u_pc' = "loop"
              /\ UNCHANGED u_result
       ELSE IF RaisesForStatus(r)
       THEN \* except requests.exceptions.HTTPError
            IF ResponseTruthy(r) /\ r.status = 429 /\ retry_count < max_retries
            THEN /\ retry_count' = retry_count + 1
                 /\ delays' = Append(delays, retry_delay)
                 /\ retry_delay' = NextDelayOnHTTPError(retry_delay)
                 /\ u_pc' = "loop"
                 /\ UNCHANGED u_result
            ELSE /\ u_pc' = "returned"
                 /\ u_result' = None
                 /\ UNCHANGED <<retry_count, retry_delay, delays>>
       ELSE \* break, then the response is parsed
            /\ u_pc' = "returned"
            /\ u_result' = ParseUpload(r)
            /\ UNCHANGED <<retry_count, retry_delay, delays>>
    /\ UNCHANGED <<access_token, max_retries, token_requests>>

UploadStep == \E r \in Responses : UploadAttempt(r)

(***************************************************************************)
(* Batch upload coordinator                                                *)
(***************************************************************************)
Folder == [id |-> "folder"]

\* How a design carries its image: a remote URL, inline base64, or neither
DesignSources == {"url", "b64_json", "none"}

Design(i, src) == [style |-> i, source |-> src]

\* Outcomes of fetching the image data of a design (lines 788-807):
\* "data": non-empty bytes; "empty": empty bytes; "error": download or decode raised
FetchOutcomes(design) ==
    IF design.source = "none" THEN {"empty"} ELSE {"data", "empty", "error"}

MsgNoFolder == "Failed to get Miscellaneous Folder ID from Zoho CRM."
MsgNoToken == "Failed to get Zoho access token for uploads."
MsgNoteFailed == "Designs uploaded successfully, but failed to create a note in Zoho CRM."
MsgUploaded == "Successfully uploaded {n} designs to Zoho WorkDrive."
MsgNoneUploaded == "No designs were successfully uploaded to Zoho WorkDrive."

Report(flag, uploads, msg) == [success |-> flag, uploads |-> uploads, message |-> msg]

BatchIdle ==
    /\ b_pc = "idle"
    /\ designs = <<>>
    /\ b_idx = 1
    /\ folder_id = None
    /\ b_token = None
    /\ successful_uploads = <<>>
    /\ failed_items = {}
    /\ optimized = {}
    /\ note_calls = 0
    /\ b_report = None
    /\ progress_callback = FALSE
    /\ progress_log = <<>>

\* A fraction num / den
Fraction(num, den) == [num |-> num, den |-> den]

\* progress = (idx) / total_designs, idx counted from 0
ProgressAt(idx, total_designs) == Fraction(idx, total_designs)

\* progress_callback(1.0)
ProgressComplete == Fraction(1, 1)

\* `if progress_callback: progress_callback(progress)`
Notify(log, progress) == IF progress_callback THEN Append(log, progress) ELSE log

\* Position the loop reaches after item b_idx
AfterItem == IF b_idx + 1 > Len(designs) THEN "finish" ELSE "item"

\* The caller hands a list of designs to the coordinator
Designs == UNION { [1..n -> DesignSources] : n \in 0..MaxItems }

BatchCall ==
    /\ b_pc = "idle"
    /\ u_pc = "idle"
    /\ \E srcs \in Designs : designs' = [i \in 1..Len(srcs) |-> Design(i, srcs[i])]
    /\ \E given \in BOOLEAN : progress_callback' = given
    /\ b_pc' = "start"
    /\ UNCHANGED <<b_idx, folder_id, b_token, successful_uploads, failed_items,
                   optimized, note_calls, b_report, progress_log>>
    /\ UNCHANGED uvars

\* The folder check that lets every folder through
FolderMissingIgnored(f) == FALSE

\* `if not folder_id`
FolderMissing(f) == f = None

\* Lines 753-774: folder and token resolution
BatchResolve ==
    /\ b_pc = "start"
    /\ \E f \in {None, Folder}, tok \in {None, Token} :
         /\ folder_id' = f
         /\ IF FolderMissing(f)
            THEN /\ b_report' = Report(FALSE, <<>>, MsgNoFolder)
                 /\ b_pc' = "returned"
                 /\ UNCHANGED <<b_token, token_requests>>
            ELSE /\ token_requests' = token_requests + 1
                 /\ b_token' = tok
                 /\ IF tok = None
                    THEN /\ b_report' = Report(FALSE, <<>>, MsgNoToken)
                         /\ b_pc' = "returned"
                    ELSE /\ b_pc' = IF Len(designs) = 0 THEN "finish" ELSE "item"
                         /\ UNCHANGED b_report
    /\ UNCHANGED <<designs, b_idx, successful_uploads, failed_items, optimized,
                   note_calls, progress_callback, progress_log>>
    /\ UNCHANGED <<u_pc, access_token, max_retries, retry_count, retry_delay, delays,
                   status_log, last_response, u_result>>

\* Every upload of the batch fetching a token of its own
SharedTokenOmitted == None

\* access_token=access_token: the token of the batch is passed to the upload task
SharedToken == b_token

\* Lines 776-829 for designs[b_idx]: fetch the image data, optimize it and
\* call the upload task; a fetch failure skips the item (`continue`)
BatchItem ==
    /\ b_pc = "item"
    /\ \E fetched \in FetchOutcomes(designs[b_idx]) :
         IF fetched # "data"
         THEN /\ failed_items' = failed_items \cup {b_idx}
              /\ b_idx' = b_idx + 1
              /\ b_pc' = AfterItem
              /\ UNCHANGED <<optimized, u_pc, access_token, max_retries, retry_count,
                             retry_delay, delays, status_log, last_response, u_result>>
         ELSE /\ optimized' = optimized \cup {b_idx}
              /\ b_pc' = "uploading"
              /\ UploadCall(SharedToken, BatchMaxRetries)
              /\ UNCHANGED <<failed_items, b_idx>>
    /\ progress_log' = Notify(progress_log, ProgressAt(b_idx - 1, Len(designs)))
    /\ UNCHANGED <<designs, folder_id, b_token, successful_uploads, note_calls,
                   b_report, token_requests, progress_callback>>

\* The coordinator going on while the upload task still runs
UploadFinishedEarly == u_pc \in {"loop", "returned", "raised"}

\* upload_file_to_workdrive is called synchronously: the coordinator goes on
\* when the task has returned or an exception has left it
UploadFinished == u_pc \in {"returned", "raised"}

\* Lines 831-841: the upload task has returned, or an exception left it
BatchItemUploaded ==
    /\ b_pc = "uploading"
    /\ UploadFinished
    /\ IF u_pc = "raised"
       THEN /\ b_pc' = "raised"
            /\ UNCHANGED <<successful_uploads, failed_items, b_idx>>
       ELSE /\ IF u_result = None
               THEN /\ failed_items' = failed_items \cup {b_idx}
                    /\ UNCHANGED successful_uploads
               ELSE /\ successful_uploads' = Append(successful_uploads,
                         [url |-> u_result.url, id |-> u_result.id,
                          style |-> designs[b_idx].style])
                    /\ UNCHANGED failed_items
            /\ b_idx' = b_idx + 1
            /\ b_pc' = AfterItem
    /\ u_pc' = "idle"
    /\ access_token' = None
    /\ max_retries' = 0
    /\ retry_count' = 0
    /\ retry_delay' = InitialRetryDelay
    /\ delays' = <<>>
    /\ status_log' = <<>>
    /\ last_response' = None
    /\ u_result' = None
    /\ UNCHANGED <<designs, folder_id, b_token, optimized, note_calls, b_report,
                   token_requests, progress_callback, progress_log>>

\* Lines 843-861: the note is written when something was uploaded, and the
\* report is returned
BatchFinish ==
    /\ b_pc = "finish"
    /\ b_pc' = "returned"
    /\ IF Len(successful_uploads) > 0
       THEN /\ note_calls' = note_calls + 1
            /\ \E note_result \in BOOLEAN :
                 b_report' = Report(TRUE, successful_uploads,
                                    IF note_result THEN MsgUploaded ELSE MsgNoteFailed)
       ELSE /\ b_report' = Report(FALSE, <<>>, MsgNoneUploaded)
            /\ UNCHANGED note_calls
    /\ progress_log' = Notify(progress_log, ProgressComplete)
    /\ UNCHANGED <<designs, b_idx, folder_id, b_token, successful_uploads,
                   failed_items, optimized, progress_callback>>
    /\ UNCHANGED uvars

(***************************************************************************)
(* Generation task and fan-out                                             *)
(***************************************************************************)
\* Prompts: "", " ", "x", " x"
Prompts == { <<>>, <<" ">>, <<"x">>, <<" ", "x">> }

\* str.strip(): leading and trailing whitespace removed
RECURSIVE lstrip(_)
lstrip(p) == IF Len(p) > 0 /\ Head(p) = " " THEN lstrip(Tail(p)) ELSE p

RECURSIVE rstrip(_)
rstrip(p) ==
    IF Len(p) > 0 /\ p[Len(p)] = " " THEN rstrip(SubSeq(p, 1, Len(p) - 1)) ELSE p

strip(p) == rstrip(lstrip(p))

\* `not prompt_text or not prompt_text.strip()`
PromptRejected(p) == Len(p) = 0 \/ Len(strip(p)) = 0

\* Kinds of a reference-image entry, by what happens to its image_data_uri:
\*   "valid"     splits on the comma and base64-decodes
\*   "empty"     an empty or blank string: skipped
\*   "nocomma"   split(',', 1) yields one part: ValueError inside the try, skipped
\*   "badb64"    base64.b64decode raises inside the try, skipped
\*   "nonstring" a non-empty value with len() and no .strip(), such as a
\*               list: .strip() raises AttributeError before the try
ImageKinds == {"valid", "empty", "nocomma", "badb64", "nonstring"}

ImageLists(kinds, n) == UNION { [1..k -> kinds] : k \in 0..n }

\* The decoding that gives up all images when one entry is skipped
DecodeAllOrNothing(images) ==
    IF \A i \in 1..Len(images) : images[i] = "valid"
    THEN [i \in 1..Len(images) |-> i] ELSE <<>>

\* Positions of the entries appended to image_bytes_list, in input order
RECURSIVE DecodeFrom(_, _)
DecodeFrom(images, i) ==
    IF i > Len(images) THEN <<>>
    ELSE IF images[i] = "valid" THEN <<i>> \o DecodeFrom(images, i + 1)
    ELSE DecodeFrom(images, i + 1)

Decode(images) == DecodeFrom(images, 1)

\* The loop over input_images_data raises when an entry has no .strip()
DecodeRaises(images) == \E i \in 1..Len(images) : images[i] = "nonstring"

\* Lines 102-105: the positions of the entries the composite prompt lists as
\* "Image i (Role: ...)": every entry of input_images_data
PromptImages(images) == [k \in 1..Len(images) |-> k]

\* The endpoint chosen from the images supplied instead of the images decoded
SelectEndpointByInput(images, image_bytes_list) ==
    IF Len(images) = 0 THEN "images.generate" ELSE "images.edit"

\* use_generate_endpoint = len(image_bytes_list) == 0
SelectEndpoint(images, image_bytes_list) ==
    IF Len(image_bytes_list) = 0 THEN "images.generate" ELSE "images.edit"

Standard == [name |-> "Standard", no |-> 0]
Title(i) == [name |-> "Style", no |-> i]
Catalog(n) == [i \in 1..n |-> Title(i)]

\* What the provider does with a call
\*   "url", "b64_json", "both": data[0] carries a URL, an inline payload, both
\*   "neither": data[0] carries none; "no_data": data is empty or missing
\*   the others: the exception the call raises
ProviderSignals ==
    {"url", "b64_json", "both", "neither", "no_data", "APIConnectionError",
     "RateLimitError", "APIStatusError_400", "APIStatusError_500", "Exception"}

\* The answers that carry an image
ImageSignals == {"url", "b64_json", "both"}

Success(style, url, b64) ==
    [style |-> style, success |-> TRUE, error |-> "None", url |-> url, b64_json |-> b64]

\* {"style": ..., "success": False, "error": ...}
Failure(style, error) == [style |-> style, success |-> FALSE, error |-> error]

\* The task returning a failure record for a response without an image
ResultOfEmptyAsFailure(signal, style) ==
    CASE signal \in {"url", "both"} -> Success(style, "url", "None")
      [] signal = "b64_json" -> Success(style, "None", "b64_json")
      [] signal \in {"neither", "no_data"} -> Failure(style, "empty_response")
      [] OTHER -> Failure(style, signal)

\* The result keeping both references when the provider sends both
ResultOfKeepingBoth(signal, style) ==
    CASE signal = "url" -> Success(style, "url", "None")
      [] signal = "b64_json" -> Success(style, "None", "b64_json")
      [] signal = "both" -> Success(style, "url", "b64_json")
      [] signal \in {"neither", "no_data"} -> None
      [] OTHER -> Failure(style, signal)

\* Lines 196-305: the value _generate_single_image returns for a provider
\* signal; the error of a failure is the text of the exception
ResultOf(signal, style) ==
    CASE signal \in {"url", "both"} -> Success(style, "url", "None")
      [] signal = "b64_json" -> Success(style, "None", "b64_json")
      [] signal \in {"neither", "no_data"} -> None
      [] OTHER -> Failure(style, signal)

\* The style directive dropped from the result
StyleOfUnlabelled(i) == Standard

\* modifier_title if modifier_title else "Standard"
StyleOf(i) == IF mode = "multi" THEN PROMPT_MODIFIERS[i] ELSE Standard

\* signal: what the provider answered to the call of the task ("none" before)
Task(stage, validated, signal, result) ==
    [stage |-> stage, validated |-> validated, signal |-> signal, result |-> result]

Queued == Task("queued", FALSE, "none", None)

InFlight == { i \in 1..Len(tasks) : tasks[i].stage = "calling" }

\* max_workers = min(5, len(PROMPT_MODIFIERS)); a direct call runs in the caller
max_workers ==
    IF mode = "multi" THEN Min(PoolWorkerCap, Len(PROMPT_MODIFIERS)) ELSE 1

FanIdle ==
    /\ f_pc = "idle"
    /\ call_kind = "none"
    /\ parallel = FALSE
    /\ client = FALSE
    /\ prompt_text = <<>>
    /\ input_images_data = <<>>
    /\ PROMPT_MODIFIERS = <<>>
    /\ max_concurrent_requests = DefaultConcurrent
    /\ mode = "none"
    /\ tasks = <<>>
    /\ results = <<>>
    /\ f_return = None
    /\ api_calls = <<>>
    /\ image_response_list = None

\* The inputs of a call are fixed
FanInputs(kind, par, cl, p, imgs, n, limit) ==
    /\ call_kind' = kind
    /\ parallel' = par
    /\ client' = cl
    /\ prompt_text' = p
    /\ input_images_data' = imgs
    /\ PROMPT_MODIFIERS' = Catalog(n)
    /\ max_concurrent_requests' = limit

\* generate_image_with_multiple_inputs, lines 58-68
GenerateEntry(par, cl, p, n) ==
    IF ~cl \/ PromptRejected(p)
    THEN /\ f_pc' = "returned"
         /\ f_return' = None
         /\ mode' = "none"
         /\ tasks' = <<>>
    ELSE /\ f_pc' = "running"
         /\ f_return' = None
         /\ mode' = IF par /\ n > 0 THEN "multi" ELSE "single"
         /\ tasks' = IF par /\ n > 0 THEN [i \in 1..n |-> Queued] ELSE <<Queued>>

\* A caller calls generate_image_with_multiple_inputs(prompt, images, parallel)
PublicCall(prompts, imageLists, maxCatalog) ==
    /\ f_pc = "idle"
    /\ \E par \in BOOLEAN, cl \in BOOLEAN, p \in prompts, imgs \in imageLists,
          n \in 0..maxCatalog :
         /\ FanInputs("public", par, cl, p, imgs, n, DefaultConcurrent)
         /\ GenerateEntry(par, cl, p, n)
    /\ UNCHANGED <<results, api_calls, image_response_list>>

\* streamlit_app.main, lines 443-466: the generate button
UiCall(prompts, imageLists, maxCatalog) ==
    /\ f_pc = "idle"
    /\ \E cl \in BOOLEAN, p \in prompts, imgs \in imageLists, n \in 0..maxCatalog :
         /\ FanInputs("ui", TRUE, cl, p, imgs, n, DefaultConcurrent)
         /\ IF ~cl \/ (Len(strip(p)) = 0 /\ Len(imgs) = 0)
            THEN /\ f_pc' = "not_called"
                 /\ UNCHANGED <<f_return, mode, tasks>>
            ELSE GenerateEntry(TRUE, cl, p, n)
    /\ UNCHANGED <<results, api_calls, image_response_list>>

\* A caller calls _generate_multiple_variations(prompt, images, limit), lines 320-353
DirectCall(prompts, imageLists, maxCatalog) ==
    /\ f_pc = "idle"
    /\ \E cl \in BOOLEAN, p \in prompts, imgs \in imageLists, n \in 0..maxCatalog,
          limit \in 1..MaxLimit :
         /\ FanInputs("direct", TRUE, cl, p, imgs, n, limit)
         /\ f_pc' = "running"
         /\ mode' = IF n > 0 THEN "multi" ELSE "fallback"
         /\ tasks' = IF n > 0 THEN [i \in 1..n |-> Queued] ELSE <<Queued>>
    /\ UNCHANGED <<f_return, results, api_calls, image_response_list>>

\* A worker takes the next submitted task and runs _generate_single_image
\* up to its provider call (lines 82-190)
TaskStart(i) ==
    /\ f_pc = "running"
    /\ i \in 1..Len(tasks)
    /\ tasks[i].stage = "queued"
    /\ \A j \in 1..(i - 1) : tasks[j].stage # "queued"
    /\ Cardinality(InFlight) < max_workers
    /\ IF ~client \/ PromptRejected(prompt_text)
       THEN /\ tasks' = [tasks EXCEPT ![i] = Task("done", FALSE, "none", None)]
            /\ UNCHANGED api_calls
       ELSE IF DecodeRaises(input_images_data)
       THEN /\ tasks' = [tasks EXCEPT ![i] = Task("raised", FALSE, "none", None)]
            /\ UNCHANGED api_calls
       ELSE LET image_bytes_list == Decode(input_images_data)
                endpoint == SelectEndpoint(input_images_data, image_bytes_list)
            IN /\ tasks' = [tasks EXCEPT ![i] = Task("calling", TRUE, "none", None)]
               /\ api_calls' = Append(api_calls,
                     [task |-> i, endpoint |-> endpoint,
                      listed |-> PromptImages(input_images_data),
                      images |-> IF endpoint = "images.edit"
                                 THEN image_bytes_list ELSE <<>>])
    /\ UNCHANGED <<f_pc, call_kind, parallel, client, prompt_text, input_images_data,
                   PROMPT_MODIFIERS, max_concurrent_requests, mode, results, f_return,
                   image_response_list>>

\* The task calling the provider again after a failure
TaskFinishRetrying(i, signal) ==
    /\ f_pc = "running"
    /\ i \in 1..Len(tasks)
    /\ tasks[i].stage = "calling"
    /\ IF signal \in ImageSignals \cup {"neither", "no_data"}
       THEN /\ tasks' = [tasks EXCEPT
                           ![i] = Task("done", TRUE, signal, ResultOf(signal, StyleOf(i)))]
            /\ UNCHANGED api_calls
       ELSE /\ api_calls' = Append(api_calls, api_calls[CHOOSE k \in 1..Len(api_calls) :
                                                         api_calls[k].task = i])
            /\ UNCHANGED tasks
    /\ UNCHANGED <<f_pc, call_kind, parallel, client, prompt_text, input_images_data,
                   PROMPT_MODIFIERS, max_concurrent_requests, mode, results, f_return,
                   image_response_list>>

\* The provider call of task i ends and the task returns (lines 192-305)
TaskFinish(i, signal) ==
    /\ f_pc = "running"
    /\ i \in 1..Len(tasks)
    /\ tasks[i].stage = "calling"
    /\ tasks' = [tasks EXCEPT ![i] = Task("done", TRUE, signal, ResultOf(signal, StyleOf(i)))]
    /\ UNCHANGED <<f_pc, call_kind, parallel, client, prompt_text, input_images_data,
                   PROMPT_MODIFIERS, max_concurrent_requests, mode, results, f_return,
                   api_calls, image_response_list>>

\* Lines 356-371: the entry appended to results for a finished future
Collected(task, title) ==
    IF task.stage = "raised" THEN Failure(title, "escaped exception")
    ELSE IF task.result = None THEN Failure(title, "Generation returned None")
    ELSE task.result

\* The collector not waiting for the task
FutureDoneAlways(i) == TRUE

\* future.result() returns, or raises, once the task has ended
FutureDone(i) == tasks[i].stage \in {"done", "raised"}

\* The collecting thread takes the result of the next future, in submission order
Collect ==
    /\ f_pc = "running"
    /\ mode = "multi"
    /\ Len(results) < Len(tasks)
    /\ LET i == Len(results) + 1
       IN /\ FutureDone(i)
          /\ results' = Append(results, Collected(tasks[i], PROMPT_MODIFIERS[i]))
    /\ UNCHANGED <<f_pc, call_kind, parallel, client, prompt_text, input_images_data,
                   PROMPT_MODIFIERS, max_concurrent_requests, mode, tasks, f_return,
                   api_calls, image_response_list>>

Successes(rs) == { i \in 1..Len(rs) : rs[i].success }

\* Lines 373-411: after the pool, the summary; when nothing succeeded the
\* summary reads image_bytes_list, a name this function does not define (NameError)
FanFinish ==
    /\ f_pc = "running"
    /\ mode = "multi"
    /\ Len(results) = Len(tasks)
    /\ IF Successes(results) = {}
       THEN /\ f_pc' = "raised"
            /\ UNCHANGED f_return
       ELSE /\ f_pc' = "returned"
            /\ f_return' = [list |-> results]
    /\ UNCHANGED <<call_kind, parallel, client, prompt_text, input_images_data,
                   PROMPT_MODIFIERS, max_concurrent_requests, mode, tasks, results,
                   api_calls, image_response_list>>

\* The single task, run in the calling thread, has ended: line 68 returns its
\* value, lines 333-334 return `[result] if result else []`
SingleFinish ==
    /\ f_pc = "running"
    /\ mode \in {"single", "fallback"}
    /\ tasks[1].stage \in {"done", "raised"}
    /\ IF tasks[1].stage = "raised"
       THEN /\ f_pc' = "raised"
            /\ UNCHANGED f_return
       ELSE /\ f_pc' = "returned"
            /\ f_return' =
                 IF mode = "single"
                 THEN (IF tasks[1].result = None THEN None ELSE [dict |-> tasks[1].result])
                 ELSE (IF tasks[1].result = None THEN [list |-> <<>>]
                       ELSE [list |-> <<tasks[1].result>>])
    /\ UNCHANGED <<call_kind, parallel, client, prompt_text, input_images_data,
                   PROMPT_MODIFIERS, max_concurrent_requests, mode, tasks, results,
                   api_calls, image_response_list>>

\* streamlit_app.main, lines 461-476: the call returns, or its exception is
\* caught and image_response_list = []
UiReceive ==
    /\ call_kind = "ui"
    /\ f_pc \in {"returned", "raised"}
    /\ image_response_list = None
    /\ image_response_list' = IF f_pc = "raised" THEN [list |-> <<>>]
                              ELSE IF f_return = None THEN [value |-> "None"]
                              ELSE f_return
    /\ UNCHANGED <<f_pc, call_kind, parallel, client, prompt_text, input_images_data,
                   PROMPT_MODIFIERS, max_concurrent_requests, mode, tasks, results,
                   f_return, api_calls>>


(***************************************************************************)
(* Image optimizer: optimize_image_for_upload                              *)
(***************************************************************************)
\* What Image.open makes of the bytes: the mode of the image, or no image
ImageModes == {"RGBA", "RGB", "P", "undecodable"}

\* The bytes handed to the optimizer; empty bytes hold no image
ImageInputs ==
    { b \in [mode : ImageModes, len : 0..MaxBytes] :
        b.len = 0 => b.mode = "undecodable" }

\* Lines 708-727: the steps of the try block after len(image_data), in order
OptimizeSteps(image) ==
    <<"open">> \o (IF image.mode = "RGBA" THEN <<"paste">>
                   ELSE IF image.mode # "RGB" THEN <<"convert">> ELSE <<>>)
               \o <<"resize", "save">>

\* The step that may raise: Image.open when the bytes hold no image, else any
\* later step, or none
FailingSteps(image) ==
    IF image.mode = "undecodable" THEN {"open"}
    ELSE {"none"} \cup { OptimizeSteps(image)[k] : k \in 2..Len(OptimizeSteps(image)) }

\* Lines 704-733: the try block; it returns the re-encoded JPEG bytes, or a
\* step raises
TryOptimize(image, failing, new_len) ==
    IF failing = "none"
    THEN [data |-> [mode |-> "JPEG", len |-> new_len],
          original_size |-> Fraction(image.len, KB),
          new_size |-> Fraction(new_len, KB)]
    ELSE [raised |-> failing]

\* The optimizer without its except clause
optimize_image_for_uploadPropagating(image, failing, new_len) ==
    TryOptimize(image, failing, new_len)

\* Lines 703-737: the try block, and the except clause returning the input
optimize_image_for_upload(image, failing, new_len) ==
    LET attempt == TryOptimize(image, failing, new_len)
    IN IF "raised" \in DOMAIN attempt
       THEN [data |-> image,
             original_size |-> Fraction(image.len, KB),
             new_size |-> Fraction(image.len, KB)]
       ELSE attempt

OptimizeIdle ==
    /\ o_pc = "idle"
    /\ image_data = None
    /\ o_failed = "none"
    /\ o_result = None

\* A caller calls optimize_image_for_upload(image_data)
OptimizeCall ==
    /\ o_pc = "idle"
    /\ image_data' \in ImageInputs
    /\ o_pc' = "called"
    /\ UNCHANGED <<o_failed, o_result>>

\* The call ends
OptimizeReturn ==
    /\ o_pc = "called"
    /\ \E failing \in FailingSteps(image_data), new_len \in 1..MaxBytes :
         LET r == optimize_image_for_upload(image_data, failing, new_len)
         IN /\ o_failed' = failing
            /\ IF "raised" \in DOMAIN r
               THEN /\ o_pc' = "raised"
                    /\ UNCHANGED o_result
               ELSE /\ o_pc' = "returned"
                    /\ o_result' = r
    /\ UNCHANGED image_data

(***************************************************************************)
(* Session state of the page: streamlit_app.main                           *)
(***************************************************************************)
SessionIdle ==
    /\ s_pc = "ready"
    /\ session_designs = None
    /\ upload_trigger = FALSE
    /\ upload_success = FALSE
    /\ clicks = 0
    /\ batches_started = 0
    /\ handed = None

\* The page storing every result of the generation
StoredDesignsUnfiltered(response_list) == response_list

\* Line 480: [result for result in image_response_list if result.get("success", False)]
StoredDesigns(response_list) == SelectSeq(response_list, LAMBDA result : result.success)

\* Lines 382-384
has_designs ==
    session_designs # None /\ Len(session_designs.successful_designs) > 0

\* Lines 443-466: a click on the generate button, in a session that is waiting
UiGenerateClick(prompts, imageLists, maxCatalog) ==
    /\ s_pc = "ready"
    /\ UiCall(prompts, imageLists, maxCatalog)
    /\ s_pc' = "generate"
    /\ UNCHANGED <<session_designs, upload_trigger, upload_success, clicks,
                   batches_started, handed>>

\* Lines 478-501, or the end of the handler when the call was not made: the
\* successes are stored when there is one; a dict or None in place of the list
\* ends the run with an exception and stores nothing
UiStore ==
    /\ s_pc = "generate"
    /\ f_pc = "not_called" \/ image_response_list # None
    /\ session_designs' =
          IF /\ f_pc # "not_called"
             /\ "list" \in DOMAIN image_response_list
             /\ Len(image_response_list.list) > 0
             /\ Len(StoredDesigns(image_response_list.list)) > 0
          THEN [successful_designs |-> StoredDesigns(image_response_list.list)]
          ELSE session_designs
    /\ s_pc' = "ready"
    /\ UNCHANGED <<upload_trigger, upload_success, clicks, batches_started, handed>>
    /\ UNCHANGED fvars

\* The run of the script has ended: its local variables are gone
UiClear ==
    /\ s_pc = "ready"
    /\ f_pc # "idle"
    /\ f_pc' = "idle"
    /\ call_kind' = "none"
    /\ parallel' = FALSE
    /\ client' = FALSE
    /\ prompt_text' = <<>>
    /\ input_images_data' = <<>>
    /\ PROMPT_MODIFIERS' = <<>>
    /\ max_concurrent_requests' = DefaultConcurrent
    /\ mode' = "none"
    /\ tasks' = <<>>
    /\ results' = <<>>
    /\ f_return' = None
    /\ api_calls' = <<>>
    /\ image_response_list' = None
    /\ UNCHANGED svars

\* Lines 434-438: a click on the upload button, shown when designs are stored
UiClickUpload ==
    /\ s_pc = "ready"
    /\ has_designs
    /\ clicks < MaxClicks
    /\ upload_trigger' = TRUE
    /\ clicks' = clicks + 1
    /\ s_pc' = "rerun"
    /\ UNCHANGED <<session_designs, upload_success, batches_started, handed>>
    /\ UNCHANGED fvars

\* The trigger left set by the run that starts the batch
TriggerAfterRunKept == TRUE

\* Line 146: st.session_state[f"upload_trigger_{order_id}"] = False
TriggerAfterRun == FALSE

\* Lines 138-172: a run of the script from the top, after st.rerun() or after
\* any other interaction; with the trigger set it resets the trigger and, when
\* designs are stored, calls the batch coordinator with them
UiRunTop ==
    /\ s_pc \in {"ready", "rerun"}
    /\ batches_started <= MaxClicks
    /\ IF upload_trigger
       THEN /\ upload_trigger' = TriggerAfterRun
            /\ IF has_designs
               THEN /\ s_pc' = "batch"
                    /\ batches_started' = batches_started + 1
                    /\ handed' = [designs |-> session_designs.successful_designs]
               ELSE /\ s_pc' = "ready"
                    /\ UNCHANGED <<batches_started, handed>>
       ELSE /\ s_pc' = "ready"
            /\ UNCHANGED <<upload_trigger, batches_started, handed>>
    /\ UNCHANGED <<session_designs, upload_success, clicks>>
    /\ UNCHANGED fvars

\* How the call of the batch coordinator ends: it reports success, it reports
\* failure, or an exception leaves it
BatchOutcomes == {"success", "failure", "raised"}

\* Lines 167-182: the batch ends; a success is remembered in the session
UiBatchReturn(outcome) ==
    /\ s_pc = "batch"
    /\ upload_success' = IF outcome = "success" THEN TRUE ELSE upload_success
    /\ s_pc' = "ready"
    /\ UNCHANGED <<session_designs, upload_trigger, clicks, batches_started, handed>>
    /\ UNCHANGED fvars

(***************************************************************************)
(* Specifications                                                          *)
(***************************************************************************)
vars == <<uvars, bvars, fvars, ovars, svars>>

Init == UploadIdle /\ BatchIdle /\ FanIdle /\ OptimizeIdle /\ SessionIdle

\* The upload task called on its own
NextUpload ==
    \/ UploadInvoke /\ UNCHANGED <<bvars, fvars, ovars, svars>>
    \/ UploadBegin /\ UNCHANGED <<bvars, fvars, ovars, svars>>
    \/ UploadStep /\ UNCHANGED <<bvars, fvars, ovars, svars>>

SpecUpload == Init /\ [][NextUpload]_vars

\* The answers of the storage service to the uploads of a batch: every status,
\* with a body that is not JSON, a JSON array, the retryable error or a
\* stored file
BatchResponses ==
    { r \in HttpResponses :
        r.body \in { Body("unparseable", "absent", "absent"),
                     Body("array", "absent", "absent"),
                     Body("object", MORE_THAN_MAX_OCCURANCE, "absent"),
                     Body("object", "absent", "rid") } }
    \cup {TransportException}

\* A batch upload, with the upload task it calls for each item
NextBatch ==
    \/ BatchCall /\ UNCHANGED <<fvars, ovars, svars>>
    \/ BatchResolve /\ UNCHANGED <<fvars, ovars, svars>>
    \/ BatchItem /\ UNCHANGED <<fvars, ovars, svars>>
    \/ UploadBegin /\ UNCHANGED <<bvars, fvars, ovars, svars>>
    \/ (\E r \in BatchResponses : UploadAttempt(r)) /\ UNCHANGED <<bvars, fvars, ovars, svars>>
    \/ BatchItemUploaded /\ UNCHANGED <<fvars, ovars, svars>>
    \/ BatchFinish /\ UNCHANGED <<fvars, ovars, svars>>

SpecBatch == Init /\ [][NextBatch]_vars

\* The fan-out over the catalog; the image lists are short and well-typed
FanImageLists == ImageLists({"valid", "badb64"}, 1)

NextFan ==
    \/ PublicCall(Prompts, FanImageLists, MaxCatalog) /\ UNCHANGED <<uvars, bvars, ovars, svars>>
    \/ UiCall(Prompts, FanImageLists, MaxCatalog) /\ UNCHANGED <<uvars, bvars, ovars, svars>>
    \/ DirectCall(Prompts, FanImageLists, MaxCatalog) /\ UNCHANGED <<uvars, bvars, ovars, svars>>
    \/ (\E i \in 1..Len(tasks) : TaskStart(i)) /\ UNCHANGED <<uvars, bvars, ovars, svars>>
    \/ (\E i \in 1..Len(tasks), signal \in ProviderSignals : TaskFinish(i, signal))
          /\ UNCHANGED <<uvars, bvars, ovars, svars>>
    \/ Collect /\ UNCHANGED <<uvars, bvars, ovars, svars>>
    \/ FanFinish /\ UNCHANGED <<uvars, bvars, ovars, svars>>
    \/ SingleFinish /\ UNCHANGED <<uvars, bvars, ovars, svars>>
    \/ UiReceive /\ UNCHANGED <<uvars, bvars, ovars, svars>>

SpecFan == Init /\ [][NextFan]_vars

\* One generation task at a time, over all image lists
TaskImageLists == ImageLists(ImageKinds, MaxImages)

NextTask ==
    \/ PublicCall(Prompts, TaskImageLists, 1) /\ UNCHANGED <<uvars, bvars, ovars, svars>>
    \/ UiCall(Prompts, TaskImageLists, 1) /\ UNCHANGED <<uvars, bvars, ovars, svars>>
    \/ DirectCall(Prompts, TaskImageLists, 1) /\ UNCHANGED <<uvars, bvars, ovars, svars>>
    \/ (\E i \in 1..Len(tasks) : TaskStart(i)) /\ UNCHANGED <<uvars, bvars, ovars, svars>>
    \/ (\E i \in 1..Len(tasks), signal \in ProviderSignals : TaskFinish(i, signal))
          /\ UNCHANGED <<uvars, bvars, ovars, svars>>
    \/ Collect /\ UNCHANGED <<uvars, bvars, ovars, svars>>
    \/ FanFinish /\ UNCHANGED <<uvars, bvars, ovars, svars>>
    \/ SingleFinish /\ UNCHANGED <<uvars, bvars, ovars, svars>>
    \/ UiReceive /\ UNCHANGED <<uvars, bvars, ovars, svars>>

SpecTask == Init /\ [][NextTask]_vars

\* The fan-out when a reference image may be ill-typed, so that an exception
\* leaves _generate_single_image
EscapeImageLists == ImageLists({"valid", "nonstring"}, 1)

NextEscape ==
    \/ PublicCall(Prompts, EscapeImageLists, EscapeCatalog) /\ UNCHANGED <<uvars, bvars, ovars, svars>>
    \/ UiCall(Prompts, EscapeImageLists, EscapeCatalog) /\ UNCHANGED <<uvars, bvars, ovars, svars>>
    \/ DirectCall(Prompts, EscapeImageLists, EscapeCatalog) /\ UNCHANGED <<uvars, bvars, ovars, svars>>
    \/ (\E i \in 1..Len(tasks) : TaskStart(i)) /\ UNCHANGED <<uvars, bvars, ovars, svars>>
    \/ (\E i \in 1..Len(tasks), signal \in ProviderSignals : TaskFinish(i, signal))
          /\ UNCHANGED <<uvars, bvars, ovars, svars>>
    \/ Collect /\ UNCHANGED <<uvars, bvars, ovars, svars>>
    \/ FanFinish /\ UNCHANGED <<uvars, bvars, ovars, svars>>
    \/ SingleFinish /\ UNCHANGED <<uvars, bvars, ovars, svars>>
    \/ UiReceive /\ UNCHANGED <<uvars, bvars, ovars, svars>>

SpecEscape == Init /\ [][NextEscape]_vars

\* The image optimizer called on its own
NextOptimize ==
    \/ OptimizeCall /\ UNCHANGED <<uvars, bvars, fvars, svars>>
    \/ OptimizeReturn /\ UNCHANGED <<uvars, bvars, fvars, svars>>

SpecOptimize == Init /\ [][NextOptimize]_vars

\* A session of the page: generations, clicks on the upload button and the
\* runs of the script; the requests are short and the provider answers with a
\* URL, an inline payload or no image
UiPrompts == { <<>>, <<"x">> }

UiImageLists == ImageLists({"valid"}, 1)

UiSignals == {"url", "b64_json", "neither"}

NextUi ==
    \/ UiGenerateClick(UiPrompts, UiImageLists, UiCatalog) /\ UNCHANGED <<uvars, bvars, ovars>>
    \/ (\E i \in 1..Len(tasks) : TaskStart(i)) /\ UNCHANGED <<uvars, bvars, ovars, svars>>
    \/ (\E i \in 1..Len(tasks), signal \in UiSignals : TaskFinish(i, signal))
          /\ UNCHANGED <<uvars, bvars, ovars, svars>>
    \/ Collect /\ UNCHANGED <<uvars, bvars, ovars, svars>>
    \/ FanFinish /\ UNCHANGED <<uvars, bvars, ovars, svars>>
    \/ SingleFinish /\ UNCHANGED <<uvars, bvars, ovars, svars>>
    \/ UiReceive /\ UNCHANGED <<uvars, bvars, ovars, svars>>
    \/ UiStore /\ UNCHANGED <<uvars, bvars, ovars>>
    \/ UiClear /\ UNCHANGED <<uvars, bvars, ovars>>
    \/ UiClickUpload /\ UNCHANGED <<uvars, bvars, ovars>>
    \/ UiRunTop /\ UNCHANGED <<uvars, bvars, ovars>>
    \/ (\E outcome \in BatchOutcomes : UiBatchReturn(outcome)) /\ UNCHANGED <<uvars, bvars, ovars>>

SpecUi == Init /\ [][NextUi]_vars

(***************************************************************************)
(* Properties                                                              *)
(***************************************************************************)
IsList(v) == "list" \in DOMAIN v

NonDecreasing(seq) == \A i \in 1..(Len(seq) - 1) : seq[i] <= seq[i + 1]

\* Every response so far was a rate-limit response
Only429 == \A i \in 1..Len(status_log) : status_log[i] = 429

\* A request that takes the fan-out path: parallel generation of an accepted
\* request, or a call of _generate_multiple_variations
FanOutRequest ==
    \/ call_kind \in {"public", "ui"} /\ parallel /\ client /\ ~PromptRejected(prompt_text)
    \/ call_kind = "direct"

FanOutEnded == FanOutRequest /\ f_pc \in {"returned", "raised"}

\* C1: for every catalog size C and every combination of task outcomes the
\* fan-out dispatches max(1, C) tasks and returns a sequence of exactly
\* max(1, C) results.
C1_ResultCount ==
    FanOutEnded =>
        /\ f_pc = "returned"
        /\ IsList(f_return)
        /\ Len(tasks) = Max(1, Len(PROMPT_MODIFIERS))
        /\ Len(f_return.list) = Max(1, Len(PROMPT_MODIFIERS))

\* C2: when every generation task of a fan-out has failed, the fan-out
\* returns the full list of failure results to its caller and does not raise.
C2_AllFailedReturns ==
    (/\ mode = "multi"
     /\ f_pc \in {"returned", "raised"}
     /\ Len(results) = Len(tasks)
     /\ Successes(results) = {})
    => (f_pc = "returned" /\ f_return = [list |-> results])

\* C3: an upload task that is rate-limited (429) on every attempt retries
\* exactly max_retries times (max_retries + 1 requests), then returns a
\* failure; its delays are non-decreasing and none exceeds 60.
C3_RateLimitedRetries ==
    (u_pc \in {"loop", "returned", "raised"} /\ Only429) =>
        /\ u_pc # "raised"
        /\ Len(delays) = retry_count
        /\ NonDecreasing(delays)
        /\ \A i \in 1..Len(delays) : delays[i] <= 60
        /\ (u_pc = "loop" => requests_sent = retry_count)
        /\ (u_pc = "returned" /\ requests_sent > 0 =>
              /\ retry_count = max_retries
              /\ requests_sent = max_retries + 1
              /\ u_result = None)

\* A rate-limited task that exhausted more retries than the default, with
\* growing delays that reach the cap
C3_Witness ==
    /\ u_pc = "returned"
    /\ requests_sent = max_retries + 1
    /\ Only429
    /\ max_retries > DefaultMaxRetries
    /\ Len(delays) = max_retries
    /\ delays[1] < delays[2]
    /\ delays[Len(delays)] = 60
    /\ u_result = None

\* C4: whatever the storage service answers, upload_file_to_workdrive
\* returns a result or a failure value and never propagates an exception.
C4_NeverRaises == u_pc # "raised"

\* The response shapes the claim calls retryable
ClaimRetryable(r) ==
    \/ r.status = 429
    \/ /\ r.status = 500
       /\ r.body.json = "object"
       /\ r.body.errors = MORE_THAN_MAX_OCCURANCE

\* C5: an attempt is followed by a retry (one more retry counted, one delay
\* slept, the loop continued) if and only if retries remain and the response
\* is a 429 or a 500 titled MORE_THAN_MAX_OCCURANCE; any other response or a
\* transport exception ends the task at once, with no delay and no retry
\* counted.
C5_RetryIff ==
    [][ (u_pc = "loop" /\ Len(status_log') = Len(status_log) + 1) =>
          LET retried == /\ u_pc' = "loop"
                         /\ retry_count' = retry_count + 1
                         /\ Len(delays') = Len(delays) + 1
              due == retry_count < max_retries /\ ClaimRetryable(last_response')
          IN /\ retried <=> due
             /\ ~due => /\ u_pc' \in {"returned", "raised"}
                        /\ retry_count' = retry_count
                        /\ delays' = delays
      ]_vars

\* A task that retried after a 500 titled MORE_THAN_MAX_OCCURANCE and was then
\* ended by a 404 with retries left
C5_Witness ==
    /\ u_pc = "returned"
    /\ status_log = <<500, 404>>
    /\ retry_count = 1
    /\ retry_count < max_retries
    /\ Len(delays) = 1
    /\ u_result = None

\* C6: at no instant are more provider calls in flight than the concurrency
\* limit given to the fan-out, nor more than the catalog size.
C6_InFlightBound ==
    Cardinality(InFlight) <= Min(max_concurrent_requests,
                                 Max(1, Len(PROMPT_MODIFIERS)))

BatchResolved == folder_id # None /\ b_token # None

UploadedStyles == { successful_uploads[k].style : k \in 1..Len(successful_uploads) }

\* C7: once folder and credential are resolved, an item's failure is recorded
\* and the remaining items are still processed, and the batch reports failure
\* if and only if no item was uploaded.
C7_ItemFailureIsolated ==
    (BatchResolved /\ b_pc \in {"returned", "raised"}) =>
        /\ b_pc = "returned"
        /\ failed_items \cup UploadedStyles = 1..Len(designs)
        /\ (b_report.success = FALSE) <=> (Len(successful_uploads) = 0)

\* C8: in the report of a batch, the uploads and the failures add up to the
\* number of items handed to the batch: every item is counted exactly once.
C8_EveryItemCounted ==
    (BatchResolved /\ b_pc \in {"returned", "raised"}) =>
        /\ b_report # None
        /\ Len(successful_uploads) + Cardinality(failed_items) = Len(designs)
        /\ failed_items \cap UploadedStyles = {}

CallsOf(i) == { k \in 1..Len(api_calls) : api_calls[k].task = i }

ValidPositions == { k \in 1..Len(input_images_data) : input_images_data[k] = "valid" }

\* No task was created and no provider call made
RejectedBeforeDispatch ==
    /\ f_pc \in {"returned", "not_called"}
    /\ Len(tasks) = 0
    /\ Len(api_calls) = 0

\* C9: a generation request is rejected before any provider call if and only
\* if its prompt is blank after trimming and it carries no reference image
\* (no entry that decodes); a blank prompt with an image is dispatched.
C9_RejectedIff ==
    (call_kind \in {"public", "ui"} /\ client /\ f_pc # "idle") =>
        (RejectedBeforeDispatch <=>
            (Len(strip(prompt_text)) = 0 /\ ValidPositions = {}))

\* seq lists the members of set in increasing order
ListsInOrder(seq, set) ==
    /\ { seq[k] : k \in 1..Len(seq) } = set
    /\ \A k \in 1..(Len(seq) - 1) : seq[k] < seq[k + 1]

\* C10: a generation task that reaches the provider makes exactly one call:
\* images.generate if and only if no reference image decoded, otherwise
\* images.edit with the decoded images in input order; a failure of the call
\* is not followed by a call of the other entry point.
C10_EndpointSelection ==
    \A i \in 1..Len(tasks) :
        IF tasks[i].validated
        THEN /\ Cardinality(CallsOf(i)) = 1
             /\ \A k \in CallsOf(i) :
                  /\ (api_calls[k].endpoint = "images.generate") <=> (ValidPositions = {})
                  /\ (api_calls[k].endpoint = "images.edit") <=> (ValidPositions # {})
                  /\ api_calls[k].endpoint = "images.edit" =>
                        ListsInOrder(api_calls[k].images, ValidPositions)
        ELSE CallsOf(i) = {}

\* A task that called images.edit with the two images that decoded, out of
\* three supplied, and ended in a failure without another call
C10_Witness ==
    /\ Len(tasks) = 1
    /\ tasks[1].stage = "done"
    /\ tasks[1].result # None
    /\ ~tasks[1].result.success
    /\ input_images_data = <<"valid", "badb64", "valid">>
    /\ api_calls = <<[task |-> 1, endpoint |-> "images.edit", listed |-> <<1, 2, 3>>,
                      images |-> <<1, 3>>]>>

\* Tasks of the fan-out that an exception left
EscapedTasks == { i \in 1..Len(tasks) : tasks[i].stage = "raised" }

\* C11: an exception escaping a generation task of a fan-out becomes exactly
\* one failure result for that task, with the task's style label and the
\* exception message, and the results of all tasks are still returned: the
\* fan-out does not raise and no sibling's result is missing.
C11_EscapeIsolated ==
    (/\ mode = "multi"
     /\ Len(tasks) >= 2
     /\ f_pc \in {"returned", "raised"}
     /\ EscapedTasks # {})
    => /\ f_pc = "returned"
       /\ IsList(f_return)
       /\ Len(f_return.list) = Len(tasks)
       /\ \A i \in EscapedTasks :
             f_return.list[i] = Failure(PROMPT_MODIFIERS[i], "escaped exception")
       /\ \A i \in (1..Len(tasks)) \ EscapedTasks :
             tasks[i].result # None => f_return.list[i] = tasks[i].result

\* C12: a batch issues one upload-scoped credential request, after the folder
\* is resolved and before the first item is processed, and every upload task
\* of the batch is given that credential and requests none of its own: the
\* number of requests is 1 whatever the number of items.
C12_OneCredentialRequest ==
    /\ token_requests <= 1
    /\ (b_pc \in {"item", "uploading", "finish"} => token_requests = 1)
    /\ (b_pc \in {"returned", "raised"} /\ folder_id # None => token_requests = 1)
    /\ (b_pc = "uploading" => access_token = b_token /\ b_token = Token)
    /\ (u_pc # "idle" => b_pc = "uploading")

\* A batch of two items, both uploaded, with one credential request
C12_Witness ==
    /\ b_pc = "returned"
    /\ Len(designs) = 2
    /\ Len(successful_uploads) = 2
    /\ token_requests = 1

\* C13: the coordinator processes the items one at a time in input order:
\* an item is optimized and its upload task started only while it is the
\* current item, the loop moves to the next item only when no upload task is
\* running, and every upload recorded belongs to the current item, which was
\* optimized before.
C13_Sequential ==
    [][ /\ b_idx' \in {b_idx, b_idx + 1}
        /\ (b_idx' = b_idx + 1 => u_pc \in {"idle", "returned"} /\ u_pc' = "idle")
        /\ optimized' \subseteq optimized \cup {b_idx}
        /\ (u_pc = "idle" /\ u_pc' # "idle" =>
               /\ b_idx' = b_idx
               /\ b_idx \in optimized'
               /\ b_pc' = "uploading")
        /\ (u_pc # "idle" => b_pc = "uploading" /\ b_idx \in optimized)
        /\ (successful_uploads' # successful_uploads =>
               /\ Len(successful_uploads') = Len(successful_uploads) + 1
               /\ successful_uploads'[Len(successful_uploads')].style = b_idx
               /\ b_idx \in optimized
               /\ u_pc = "returned")
      ]_vars

\* The second item is being uploaded, after a retry, once the first item
\* has been uploaded
C13_Witness ==
    /\ b_pc = "uploading"
    /\ b_idx = 2
    /\ u_pc = "loop"
    /\ retry_count >= 1
    /\ Len(delays) >= 1
    /\ UploadedStyles = {1}
    /\ optimized = {1, 2}

\* C14: when the folder or the credential cannot be resolved the batch
\* reports failure with no uploads, nothing was fetched, optimized or
\* uploaded, the record-keeper was not called, and the message names the
\* resolution that failed and is not the message for uploads that all failed.
C14_ResolutionFailure ==
    (b_pc \in {"returned", "raised"} /\ (folder_id = None \/ b_token = None)) =>
        /\ b_pc = "returned"
        /\ b_report =
              Report(FALSE, <<>>, IF folder_id = None THEN MsgNoFolder ELSE MsgNoToken)
        /\ b_report.message # MsgNoneUploaded
        /\ MsgNoFolder # MsgNoToken
        /\ successful_uploads = <<>>
        /\ failed_items = {}
        /\ optimized = {}
        /\ b_idx = 1
        /\ note_calls = 0
        /\ u_pc = "idle"
        /\ requests_sent = 0
        /\ (folder_id = None => token_requests = 0)

\* A batch of two items whose credential could not be obtained
C14_Witness ==
    /\ b_pc = "returned"
    /\ Len(designs) = 2
    /\ folder_id = Folder
    /\ b_token = None
    /\ b_report = Report(FALSE, <<>>, MsgNoToken)

\* C15: when at least one item was uploaded the record-keeper is called
\* once, and whether or not it succeeds the report has the success outcome
\* and lists exactly the uploads made; only the message differs.
C15_NoteFailureKeepsUploads ==
    (b_pc \in {"returned", "raised"} /\ Len(successful_uploads) > 0) =>
        /\ b_pc = "returned"
        /\ note_calls = 1
        /\ b_report.success = TRUE
        /\ b_report.uploads = successful_uploads
        /\ b_report.message \in {MsgUploaded, MsgNoteFailed}

RECURSIVE Pow2(_)
Pow2(n) == IF n = 0 THEN 1 ELSE 2 * Pow2(n - 1)

\* C16: the delay before the k-th retry is the base delay 2^(k-1) times a
\* jitter factor in [0.5, 1.5], capped at 60: twice the k-th delay lies
\* between min(120, 2^(k-1)) and min(120, 3 * 2^(k-1)).
C16_DelayBounds ==
    \A k \in 1..Len(delays) :
        /\ Min(2 * MaxRetryDelay, Pow2(k - 1)) <= 2 * delays[k]
        /\ 2 * delays[k] <= Min(2 * MaxRetryDelay, 3 * Pow2(k - 1))

Malformed == {"empty", "nocomma", "badb64"}

MalformedPositions ==
    { k \in 1..Len(input_images_data) : input_images_data[k] \in Malformed }

\* Exactly one entry is malformed and every other entry is valid
OneMalformed ==
    /\ Cardinality(MalformedPositions) = 1
    /\ ValidPositions \cup MalformedPositions = 1..Len(input_images_data)

\* C17: with N reference images of which exactly one is malformed and the
\* others valid, no exception leaves the task, a task is turned away only for
\* its prompt or the missing client, and a task that goes on makes its one
\* provider call with exactly the N-1 valid images in their input order.
C17_DecodeSkip ==
    OneMalformed =>
        \A i \in 1..Len(tasks) :
            /\ tasks[i].stage # "raised"
            /\ (tasks[i].stage = "done" /\ ~tasks[i].validated =>
                   ~client \/ PromptRejected(prompt_text))
            /\ (tasks[i].stage \in {"calling", "done"} /\ tasks[i].validated =>
                   /\ Cardinality(CallsOf(i)) = 1
                   /\ \A k \in CallsOf(i) :
                        /\ Len(api_calls[k].images) = Len(input_images_data) - 1
                        /\ ListsInOrder(api_calls[k].images, ValidPositions)
                        /\ api_calls[k].endpoint =
                              IF Len(input_images_data) = 1
                              THEN "images.generate" ELSE "images.edit")

\* A task given three images, the second without a comma, that called
\* images.edit with the first and the third and succeeded
C17_Witness ==
    /\ input_images_data = <<"valid", "nocomma", "valid">>
    /\ Len(tasks) = 1
    /\ tasks[1].stage = "done"
    /\ tasks[1].signal = "url"
    /\ tasks[1].result.success
    /\ api_calls = <<[task |-> 1, endpoint |-> "images.edit", listed |-> <<1, 2, 3>>,
                      images |-> <<1, 3>>]>>

\* C18: with an empty catalog a parallel request that has a prompt or a valid
\* reference image runs exactly one task and the caller receives a sequence
\* of one result labelled "Standard", whatever the outcome of the task.
C18_EmptyCatalogFallback ==
    (/\ (call_kind = "direct" \/ (call_kind \in {"public", "ui"} /\ parallel))
     /\ client
     /\ Len(PROMPT_MODIFIERS) = 0
     /\ (Len(strip(prompt_text)) > 0 \/ ValidPositions # {})
     /\ f_pc \in {"returned", "raised", "not_called"})
    => /\ f_pc = "returned"
       /\ Len(tasks) = 1
       /\ IsList(f_return)
       /\ Len(f_return.list) = 1
       /\ f_return.list[1].style = Standard

\* The error kind the taxonomy gives to a provider signal
ErrorKindOf(signal) ==
    CASE signal = "APIConnectionError" -> "connection"
      [] signal = "RateLimitError" -> "rate_limit"
      [] signal = "APIStatusError_400" -> "invalid_request"
      [] signal = "APIStatusError_500" -> "server_error"
      [] signal \in {"neither", "no_data"} -> "empty_response"
      [] OTHER -> "internal"

\* Tasks whose provider call has ended
AnsweredTasks ==
    { i \in 1..Len(tasks) : tasks[i].stage = "done" /\ tasks[i].validated }

RecordedFor(i) ==
    IF tasks[i].result = None
    THEN [style |-> PROMPT_MODIFIERS[i], success |-> FALSE,
          error |-> "Generation returned None"]
    ELSE tasks[i].result

C22_ResultOnlyOnSuccess ==
    (u_pc = "returned" /\ u_result # None) =>
        /\ last_response # None
        /\ ~RaisesForStatus(last_response)
        /\ last_response.body.json = "object"
        /\ last_response.body.data = "rid"
        /\ u_result.id = "resource_id"
        /\ u_result.url = [base |-> "https://workdrive.zoho.com/file/", file |-> u_result.id]
        /\ status_log[Len(status_log)] = last_response.status
        /\ requests_sent = retry_count + 1
        /\ token_requests <= 1

\* An upload that was rate-limited once and then stored, with its result
C22_Witness ==
    /\ u_pc = "returned"
    /\ status_log = <<429, 200>>
    /\ u_result # None
    /\ u_result.id = "resource_id"

\* C28: for every max_retries >= 0 and whatever the storage service answers,
\* the upload task makes at most max_retries + 1 requests and sleeps at most
\* max_retries times, its retry counter never exceeds max_retries, and the
\* retry loop is left only by the break of a success or by returning a
\* failure, never by an exception.
C28_BoundedRetries ==
    /\ requests_sent <= max_retries + 1
    /\ Len(delays) <= max_retries
    /\ retry_count <= max_retries
    /\ (u_pc \in {"returned", "raised"} /\ requests_sent > 0 =>
          /\ u_pc = "returned"
          /\ (u_result # None => ~RaisesForStatus(last_response)))

\* C24: a success result has exactly one of its two image references: a URL
\* with no inline payload, or an inline payload with no URL, also when the
\* provider sent both; the same holds of every success collected or returned.
C24_OneReference ==
    /\ \A i \in AnsweredTasks :
          (tasks[i].result # None /\ tasks[i].result.success) =>
              /\ (tasks[i].result.url # "None") # (tasks[i].result.b64_json # "None")
              /\ tasks[i].signal \in ImageSignals
    /\ \A i \in 1..Len(results) :
          results[i].success =>
              (results[i].url # "None") # (results[i].b64_json # "None")

\* A task whose provider sent both a URL and an inline payload and whose
\* result, collected by the fan-out, keeps the URL only
C24_Witness ==
    /\ mode = "multi"
    /\ Len(results) >= 1
    /\ tasks[1].signal = "both"
    /\ results[1].success
    /\ results[1].url = "url"
    /\ results[1].b64_json = "None"

\* C25: a generation task calls the provider at most once: once a task has
\* made its call, no later step adds a call for it, whatever the call's
\* outcome, and a fan-out makes no more calls than it has tasks.
C25_NoRetry ==
    [][ /\ Len(api_calls) <= Len(tasks)
        /\ \A i \in 1..Len(tasks) :
              /\ Cardinality(CallsOf(i)) <= 1
              /\ (tasks[i].stage \in {"calling", "done", "raised"} =>
                    { k \in 1..Len(api_calls') : api_calls'[k].task = i } = CallsOf(i))
      ]_vars

\* A fan-out whose first two calls failed and whose third gave an image, with
\* three calls made in all
C25_Witness ==
    /\ f_pc = "returned"
    /\ Len(tasks) = 3
    /\ tasks[1].signal = "RateLimitError"
    /\ tasks[2].signal = "APIConnectionError"
    /\ tasks[3].signal = "url"
    /\ Len(api_calls) = 3

\* C27: while a fan-out runs its inputs do not change; a step of a task
\* changes the record of that task only and leaves the result list alone; the
\* result list changes only by the collector appending the result of a task
\* that has ended; the record of an ended task is not changed again.
C27_TaskIsolation ==
    [][ f_pc = "running" /\ mode = "multi" =>
          /\ <<prompt_text, input_images_data, PROMPT_MODIFIERS, client>>' =
                <<prompt_text, input_images_data, PROMPT_MODIFIERS, client>>
          /\ Len(tasks') = Len(tasks)
          /\ (results' # results =>
                /\ tasks' = tasks
                /\ Len(results') = Len(results) + 1
                /\ SubSeq(results', 1, Len(results)) = results
                /\ tasks[Len(results')].stage \in {"done", "raised"})
          /\ (tasks' # tasks =>
                /\ results' = results
                /\ Cardinality({ i \in 1..Len(tasks) : tasks'[i] # tasks[i] }) = 1)
          /\ \A i \in 1..Len(tasks) :
                tasks[i].stage \in {"done", "raised"} => tasks'[i] = tasks[i]
      ]_vars

\* The result of the first task has been collected while the second and the
\* third task are both waiting for the provider
C27_Witness ==
    /\ f_pc = "running"
    /\ Len(tasks) = 3
    /\ Len(results) = 1
    /\ InFlight = {2, 3}

\* C30: the images the composite prompt lists are exactly the images
\* attached to the provider call, and none is listed when images.generate is
\* called.
C30_PromptListsAttached ==
    \A k \in 1..Len(api_calls) :
        /\ api_calls[k].listed = api_calls[k].images
        /\ (api_calls[k].endpoint = "images.generate" => api_calls[k].listed = <<>>)

\* a <= b for fractions with positive denominators
FractionLeq(a, b) == a.num * b.den <= b.num * a.den

\* C21: when a batch given a progress callback has ended, the fractions
\* passed to the callback are a non-decreasing sequence of values in [0, 1]
\* that starts with 0.0 and ends with 1.0.
C21_ProgressZeroToOne ==
    (progress_callback /\ b_pc \in {"returned", "raised"}) =>
        /\ Len(progress_log) >= 1
        /\ \A k \in 1..Len(progress_log) :
              /\ progress_log[k].den > 0
              /\ FractionLeq(Fraction(0, 1), progress_log[k])
              /\ FractionLeq(progress_log[k], Fraction(1, 1))
        /\ \A k \in 1..(Len(progress_log) - 1) :
              FractionLeq(progress_log[k], progress_log[k + 1])
        /\ progress_log[1].num = 0
        /\ progress_log[Len(progress_log)].num = progress_log[Len(progress_log)].den

\* C23: optimize_image_for_upload never lets an exception out, and when a
\* step of the optimization fails it returns the bytes it was given with both
\* sizes equal to the size of these bytes.
C23_OptimizeNeverRaises ==
    /\ o_pc # "raised"
    /\ (o_pc = "returned" /\ o_failed # "none") =>
          /\ o_result.data = image_data
          /\ o_result.original_size = Fraction(image_data.len, KB)
          /\ o_result.new_size = o_result.original_size

\* The resize of an image with an alpha channel failed and the call returned
\* the bytes it was given
C23_Witness ==
    /\ o_pc = "returned"
    /\ image_data.mode = "RGBA"
    /\ o_failed = "resize"
    /\ o_result.data = image_data

\* C26: every design stored in the session for upload, and every design
\* handed to the batch coordinator, is a generation result with a success
\* outcome that carries an image reference.
C26_OnlySuccessesUploaded ==
    /\ session_designs # None =>
          \A k \in 1..Len(session_designs.successful_designs) :
              session_designs.successful_designs[k].success
    /\ handed # None =>
          /\ Len(handed.designs) > 0
          /\ \A k \in 1..Len(handed.designs) :
                /\ handed.designs[k].success
                /\ handed.designs[k].url # "None" \/ handed.designs[k].b64_json # "None"

\* A generation of two variations ended with one failure and one success, and
\* the batch coordinator was handed the success alone
C26_Witness ==
    /\ batches_started = 1
    /\ image_response_list # None
    /\ "list" \in DOMAIN image_response_list
    /\ Len(image_response_list.list) = 2
    /\ ~image_response_list.list[1].success
    /\ handed = [designs |-> <<image_response_list.list[2]>>]

\* C29: the batch uploads started never outnumber the clicks on the upload
\* button; the trigger is set only between a click and the run that follows
\* it, and it is already reset while the batch runs, so that no later run
\* starts a batch without a new click.
C29_OneBatchPerClick ==
    /\ batches_started <= clicks
    /\ upload_trigger => (s_pc = "rerun" /\ batches_started < clicks)
    /\ s_pc = "batch" => ~upload_trigger

\* After one click and the batch it started, a regeneration is running and
\* no second batch was started
C29_Witness ==
    /\ clicks = 1
    /\ batches_started = 1
    /\ s_pc = "generate"
    /\ f_pc = "running"
    /\ ~upload_trigger

====
